---------------------------- MODULE Spec2Model ----------------------------
(***************************************************************************)
(* State-machine model of the Clean Energy API (src/main.py) and of the    *)
(* record schemas it validates with (src/schemas.py).                      *)
(*                                                                         *)
(* One action per endpoint.  Every handler of main.py makes at most one    *)
(* call to the document store, so a handler is one atomic step: a finer    *)
(* interleaving of concurrent requests yields no other store history.      *)
(*                                                                         *)
(* The module `database` (db, get_documents, create_document) is imported  *)
(* by main.py but is not among the source files; it is modelled from       *)
(* section 4.1 of the specification.                                       *)
(*                                                                         *)
(* Encoding.  Python's None is the empty tuple and a present optional      *)
(* value x is <<x>>.  A text whose content does not matter (an exception   *)
(* message) is the tuple <<1, ..., n>> of its n characters.  The status    *)
(* glyphs that open the literals of /test are left out of the strings.     *)
(***************************************************************************)
EXTENDS Integers, Sequences, FiniteSets

VARIABLES
    db,        \* the global store handle: "None" or "Database"
    env,       \* the process environment: DATABASE_URL, DATABASE_NAME
    store,     \* the four collections of the document database
    request,   \* the request handled last
    response,  \* the response given to it
    call       \* the store call the handler made for it, with its outcome

vars == <<db, env, store, request, response, call>>

----------------------------------------------------------------------------
(* Bounds of the model *)

MaxDocs == 7
MaxInquiries == 2
MaxLimit == 7
MaxCollections == 11
MaxErrLen == 81

----------------------------------------------------------------------------
(* Values *)

None == <<>>
Some(x) == <<x>>
Val(o) == o[1]

Min(a, b) == IF a <= b THEN a ELSE b

\* Python's s[:n] for n >= 0
Slice(s, n) == SubSeq(s, 1, Min(n, Len(s)))

\* a text of n characters
Text(n) == [i \in 1..n |-> i]

\* the lengths of the messages a store exception may carry
ErrLens == {1, MaxErrLen}

\* Python's truth value of an optional string
Truthy(o) == o # None /\ Val(o) # ""


----------------------------------------------------------------------------
(* Program constants *)

\* collections[:10]
CollectionsShown == 10
\* str(e)[:80]
ErrShown == 80
\* list_stories(limit: int = 6)
DefaultLimit == 6

----------------------------------------------------------------------------
(* Record schemas: src/schemas.py *)

\* EnergyProduct(**{k: v for k, v in d.items() if k != "_id"})
EnergyProduct(d) ==
    [name |-> d.name, sector |-> d.sector, summary |-> d.summary,
     specs |-> d.specs, image |-> d.image, featured |-> d.featured]

\* ImpactStory(**{k: v for k, v in d.items() if k != "_id"})
ImpactStory(d) ==
    [title |-> d.title, location |-> d.location, sector |-> d.sector,
     summary |-> d.summary, media_url |-> d.media_url, partner |-> d.partner]

\* Office(**{k: v for k, v in d.items() if k != "_id"})
Office(d) ==
    [region |-> d.region, city |-> d.city, address |-> d.address,
     phone |-> d.phone, email |-> d.email]

\* the addresses EmailStr accepts, among those the model submits
ValidEmails == {"ada@example.org", "bo@example.org"}

InquiryRequired == {"name", "email", "topic", "message"}

\* Inquiry(**body): body maps each field to None (absent) or Some(value).
\* A missing required field or a malformed address fails validation;
\* company defaults to None and consent to False.
Inquiry(body) ==
    IF \/ \E f \in InquiryRequired : body[f] = None
       \/ Val(body.email) \notin ValidEmails
    THEN [valid |-> FALSE, value |-> None]
    ELSE [valid |-> TRUE,
          value |-> [name    |-> Val(body.name),
                     email   |-> Val(body.email),
                     company |-> body.company,
                     topic   |-> Val(body.topic),
                     message |-> Val(body.message),
                     consent |-> IF body.consent = None THEN FALSE
                                 ELSE Val(body.consent)]]

InquiryFields == {"name", "email", "company", "topic", "message", "consent"}

\* InquiryResponse(ok=..., message=...)
InquiryResponse(ok, text, detail) ==
    [ok |-> ok, message |-> [text |-> text, detail |-> detail]]

----------------------------------------------------------------------------
(* The document store: module `database`, modelled from the specification *)

EmptyFilter == [sector |-> None, featured |-> None]

\* a document passes an equality filter when it has the value of every
\* field the filter names
Matches(d, filt) ==
    /\ filt.sector # None => d.sector = Val(filt.sector)
    /\ filt.featured # None => d.featured = Val(filt.featured)

\* how a call to the store ends: it returns a value or raises an error
Returned(v) == [raised |-> FALSE, msg |-> <<>>, value |-> v]
Raised(m) == [raised |-> TRUE, msg |-> m, value |-> <<>>]

\* get_documents(collection, filter = empty, limit = unbounded): the
\* documents passing the filter, in the store's order, at most `limit` of
\* them; exc is the error the underlying query raises, if it raises one.
get_documents(collection, filt, limit, exc) ==
    IF exc # None
    THEN Raised(Val(exc))
    ELSE LET found == SelectSeq(store[collection], LAMBDA d : Matches(d, filt))
         IN  Returned(IF limit = None THEN found ELSE Slice(found, Val(limit)))

\* create_document(collection, record): stores the record's fields under a
\* store-assigned identifier and returns the stored document, or raises on
\* I/O failure and stores nothing.
create_document(collection, record, exc) ==
    IF exc # None
    THEN [outcome |-> Raised(Val(exc)), store |-> store]
    ELSE LET doc == [f \in DOMAIN record \cup {"_id"} |->
                        IF f = "_id" THEN Len(store[collection]) + 1
                        ELSE record[f]]
         IN  [outcome |-> Returned(doc),
              store |-> [store EXCEPT ![collection] = Append(@, doc)]]

\* the record of a call to the store: the function, its arguments (those
\* it does not take left empty) and how it ended
Call(fn, collection, filt, limit, record, outcome) ==
    [fn |-> fn, collection |-> collection, filt |-> filt, limit |-> limit,
     record |-> record, outcome |-> outcome]

NoCall == Call("none", "", EmptyFilter, None, None, Returned(<<>>))

----------------------------------------------------------------------------
(* Responses *)

\* a handler's return value, sent with status 200
Ok(body) == [status |-> 200, body |-> body]

\* raise HTTPException(status_code=400, detail=...)
HTTPException(code, detail) == [status |-> code, body |-> [detail |-> detail]]

\* the framework's answer to a body that fails schema validation; the
\* handler is not run
ValidationError == [status |-> 422, body |-> [detail |-> "validation error"]]

\* the framework's answer to an exception that leaves the handler
ServerError == [status |-> 500, body |-> [detail |-> "Internal Server Error"]]

\* what a handler yields: its response, its store call and the store after
Result(resp, c, st) == [response |-> resp, call |-> c, store |-> st]

----------------------------------------------------------------------------
(* GET / *)

root == Ok([status |-> "ok", service |-> "clean-energy-backend"])

----------------------------------------------------------------------------
(* GET /test *)

\* "Set" if os.getenv(NAME) else "Not Set"
EnvFlag(v) == IF Truthy(v) THEN "Set" ELSE "Not Set"

\* a status line of the diagnostic: a literal and the text formatted into it
Line(text, detail) == [text |-> text, detail |-> detail]

\* getattr(db, 'name', 'Connected')
db_name == "clean_energy"

\* a faulty variant: the environment flags not written
test_database_env_not_written(r) == r

\* the environment flags, written last: main.py lines 53-55
test_database_env(r) ==
    [r EXCEPT !.database_url = EnvFlag(env.DATABASE_URL),
              !.database_name = EnvFlag(env.DATABASE_NAME)]

\* listed: how db.list_collection_names() ends, when it is called
test_database(listed) ==
    LET r0 == [backend |-> "Running",
               database |-> Line("Not Available", <<>>),
               database_url |-> "Not Set",
               database_name |-> "Not Set",
               connection_status |-> "Not Connected",
               collections |-> <<>>]
        r1 == [r0 EXCEPT !.database_url = "Set",
                         !.database_name = db_name,
                         !.connection_status = "Connected"]
        r2 == IF db # "None"
              THEN IF ~ listed.raised
                   THEN [r1 EXCEPT !.collections = Slice(listed.value, CollectionsShown),
                                   !.database = Line("Connected & Working", <<>>)]
                   ELSE [r1 EXCEPT !.database =
                            Line("Connected but Error: ", Slice(listed.msg, ErrShown))]
              ELSE [r0 EXCEPT !.database = Line("Database not initialized", <<>>)]
    IN  Result(Ok(test_database_env(r2)),
               IF db # "None"
               THEN Call("list_collection_names", "", EmptyFilter, None, None, listed)
               ELSE NoCall,
               store)

----------------------------------------------------------------------------
(* GET /api/solutions *)

DefaultSolutions ==
    << [name |-> "Solar Inverters", sector |-> "solar",
        summary |-> "High-efficiency PV inverters for utility and C&I.",
        specs |-> Some(<<"98.6% max efficiency", "Grid support">>),
        image |-> None, featured |-> TRUE],
       [name |-> "Wind Drive Systems", sector |-> "wind",
        summary |-> "Reliable drivetrain and control systems for wind turbines.",
        specs |-> Some(<<"Low maintenance", "High uptime">>),
        image |-> None, featured |-> TRUE],
       [name |-> "Battery Energy Storage", sector |-> "storage",
        summary |-> "Modular, safe, and scalable storage systems.",
        specs |-> Some(<<"LFP chemistry", "Liquid cooling">>),
        image |-> None, featured |-> TRUE] >>

\* a faulty variant: featured tested for truth, as sector is
solutions_filter_by_truth(sector, featured) ==
    [sector   |-> IF Truthy(sector) THEN sector ELSE None,
     featured |-> IF featured = Some(TRUE) THEN featured ELSE None]

\* filt = {}; if sector: filt["sector"] = sector;
\* if featured is not None: filt["featured"] = featured
solutions_filter(sector, featured) ==
    [sector   |-> IF Truthy(sector) THEN sector ELSE None,
     featured |-> IF featured # None THEN featured ELSE None]

\* a faulty variant: the filters applied to the defaults
list_solutions_filtering_defaults(sector, featured, exc) ==
    IF db = "None"
    THEN Result(Ok(SelectSeq(DefaultSolutions,
                             LAMBDA d : Matches(d, solutions_filter(sector, featured)))),
                NoCall, store)
    ELSE LET filt == solutions_filter(sector, featured)
             got  == get_documents("energyproduct", filt, None, exc)
         IN  Result(IF got.raised THEN ServerError
                    ELSE Ok([i \in 1..Len(got.value) |-> EnergyProduct(got.value[i])]),
                    Call("get_documents", "energyproduct", filt, None, None, got),
                    store)

list_solutions(sector, featured, exc) ==
    IF db = "None"
    THEN Result(Ok(DefaultSolutions), NoCall, store)
    ELSE LET filt == solutions_filter(sector, featured)
             got  == get_documents("energyproduct", filt, None, exc)
         IN  Result(IF got.raised THEN ServerError
                    ELSE Ok([i \in 1..Len(got.value) |-> EnergyProduct(got.value[i])]),
                    Call("get_documents", "energyproduct", filt, None, None, got),
                    store)

----------------------------------------------------------------------------
(* GET /api/stories *)

DefaultStories ==
    << [title |-> "200 MW Solar + Storage in MENA", location |-> Some("UAE"),
        sector |-> Some("solar"),
        summary |-> "Hybrid system powering 150k homes while avoiding 300k tons CO2 annually.",
        media_url |-> None, partner |-> Some("Masdar")],
       [title |-> "Offshore Wind Integration", location |-> Some("North Sea"),
        sector |-> Some("wind"),
        summary |-> "Advanced grid-forming inverters stabilize offshore wind farms.",
        media_url |-> None, partner |-> Some("")] >>

\* a faulty variant: the limit parameter ignored
stories_limit_ignoring_parameter(limit) == DefaultLimit

\* the limit parameter, 6 when the request gives none
stories_limit(limit) == IF limit = None THEN DefaultLimit ELSE Val(limit)

list_stories(limit, exc) ==
    IF db = "None"
    THEN Result(Ok(DefaultStories), NoCall, store)
    ELSE LET lim == Some(stories_limit(limit))
             got == get_documents("impactstory", EmptyFilter, lim, exc)
         IN  Result(IF got.raised THEN ServerError
                    ELSE Ok([i \in 1..Len(got.value) |-> ImpactStory(got.value[i])]),
                    Call("get_documents", "impactstory", EmptyFilter, lim, None, got),
                    store)

----------------------------------------------------------------------------
(* GET /api/offices *)

DefaultOffices ==
    << [region |-> "North America", city |-> "San Francisco", address |-> None,
        phone |-> None, email |-> Some("na@cleantech.example")],
       [region |-> "EMEA", city |-> "Munich", address |-> None,
        phone |-> None, email |-> Some("emea@cleantech.example")],
       [region |-> "APAC", city |-> "Singapore", address |-> None,
        phone |-> None, email |-> Some("apac@cleantech.example")] >>

list_offices(exc) ==
    IF db = "None"
    THEN Result(Ok(DefaultOffices), NoCall, store)
    ELSE LET got == get_documents("office", EmptyFilter, None, exc)
         IN  Result(IF got.raised THEN ServerError
                    ELSE Ok([i \in 1..Len(got.value) |-> Office(got.value[i])]),
                    Call("get_documents", "office", EmptyFilter, None, None, got),
                    store)

----------------------------------------------------------------------------
(* POST /api/inquiry *)

ThankYou == "Thank you. Our team will contact you shortly."

\* a faulty variant: the consent check left out
consent_missing_always_false(payload) == FALSE

\* if not payload.consent: main.py line 97
consent_missing(payload) == ~ payload.consent

\* a faulty variant: the handle not checked before the write
store_available_unchecked == TRUE

\* if db is not None: main.py line 99
store_available == db # "None"

\* a faulty variant: the optional company dropped from the record
inquiry_record_without_company(payload) == [payload EXCEPT !.company = None]

\* the record handed to create_document, the payload itself: main.py line 101
inquiry_record(payload) == payload

\* a faulty variant: no except clause, the error leaves the handler
write_reply_uncaught(outcome) ==
    IF outcome.raised THEN ServerError
    ELSE Ok(InquiryResponse(TRUE, ThankYou, <<>>))

\* the reply after the write was attempted: the except clause of lines
\* 102-104 when create_document raised, line 105 when it returned
write_reply(outcome) ==
    IF outcome.raised
    THEN Ok(InquiryResponse(FALSE, "Received but DB error: ",
                            Slice(outcome.msg, ErrShown)))
    ELSE Ok(InquiryResponse(TRUE, ThankYou, <<>>))

\* a faulty variant: the record written a second time after a successful write
submit_inquiry_writing_twice(payload, exc) ==
    IF consent_missing(payload)
    THEN Result(HTTPException(400, "Consent required for storing contact info."),
                NoCall, store)
    ELSE IF store_available
    THEN LET record == inquiry_record(payload)
             done   == create_document("inquiry", record, exc)
         IN  Result(write_reply(done.outcome),
                    Call("create_document", "inquiry", EmptyFilter, None,
                         Some(record), done.outcome),
                    IF done.outcome.raised THEN done.store
                    ELSE [done.store EXCEPT
                             !.inquiry = Append(@, done.outcome.value)])
    ELSE Result(Ok(InquiryResponse(TRUE, ThankYou, <<>>)), NoCall, store)

submit_inquiry(payload, exc) ==
    IF consent_missing(payload)
    THEN Result(HTTPException(400, "Consent required for storing contact info."),
                NoCall, store)
    ELSE IF store_available
    THEN LET record == inquiry_record(payload)
             done   == create_document("inquiry", record, exc)
         IN  Result(write_reply(done.outcome),
                    Call("create_document", "inquiry", EmptyFilter, None,
                         Some(record), done.outcome),
                    done.store)
    ELSE Result(Ok(InquiryResponse(TRUE, ThankYou, <<>>)), NoCall, store)

\* the route: the body is validated against Inquiry before the handler runs
post_inquiry(body, exc) ==
    LET parsed == Inquiry(body)
    IN  IF ~ parsed.valid
        THEN Result(ValidationError, NoCall, store)
        ELSE submit_inquiry(parsed.value, exc)

----------------------------------------------------------------------------
(* The contents of the database before the service starts *)

ProductNames == <<"Solar Inverters", "Wind Drive Systems", "Battery Energy Storage">>

ProductDoc(i) ==
    [_id |-> i, name |-> ProductNames[(i % 3) + 1],
     sector |-> IF i % 2 = 1 THEN "solar" ELSE "wind",
     summary |-> "summary", specs |-> None, image |-> None,
     featured |-> (i % 3 = 1)]

StoryTitles == <<"Solar farm", "Wind farm", "Storage site", "Hydrogen hub">>
StoryPartners == <<None, Some("Masdar"), Some("")>>

StoryDoc(i) ==
    [_id |-> i, title |-> StoryTitles[(i % 4) + 1], location |-> None,
     sector |-> None, summary |-> "summary", media_url |-> None,
     partner |-> StoryPartners[(i % 3) + 1]]

OfficeCities == <<"San Francisco", "Munich", "Singapore">>

OfficeDoc(i) ==
    [_id |-> i, region |-> "region", city |-> OfficeCities[(i % 3) + 1],
     address |-> None, phone |-> None, email |-> None]

\* the first n documents of each collection
ProductDocs(n) == [i \in 1..n |-> ProductDoc(i)]
StoryDocs(n) == [i \in 1..n |-> StoryDoc(i)]
OfficeDocs(n) == [i \in 1..n |-> OfficeDoc(i)]

\* the names db.list_collection_names() may return: the four collections
\* of the service among the n collections of the database
CollectionNames(n) ==
    [i \in 1..n |-> IF i = 1 THEN "energyproduct"
                    ELSE IF i = 2 THEN "impactstory"
                    ELSE IF i = 3 THEN "office"
                    ELSE IF i = 4 THEN "inquiry"
                    ELSE "other"]

----------------------------------------------------------------------------
(* Inputs *)

EnvValues == {None, Some(""), Some("value")}

SectorParams == {None, Some(""), Some("solar"), Some("wind")}
FeaturedParams == {None, Some(TRUE), Some(FALSE)}
LimitParams == {None} \cup {Some(n) : n \in 0..MaxLimit}

\* the errors a store call may raise; None: it raises none
Excs == {None} \cup {Some(Text(n)) : n \in ErrLens}

\* who submits: an address with no company, another with a company
Submitters ==
    {[email |-> "ada@example.org", company |-> None],
     [email |-> "bo@example.org", company |-> Some("Acme")]}

ValidBodies ==
    {[name |-> Some("Ada"), email |-> Some(w.email), company |-> w.company,
      topic |-> Some("Partnerships"), message |-> Some("Hello"), consent |-> c] :
        w \in Submitters, c \in {None, Some(TRUE), Some(FALSE)}}

BaseBody ==
    [name |-> Some("Ada"), email |-> Some("ada@example.org"), company |-> None,
     topic |-> Some("Partnerships"), message |-> Some("Hello"),
     consent |-> Some(TRUE)]

\* bodies the schema rejects: a required field missing, a malformed address
InvalidBodies ==
    {[BaseBody EXCEPT ![f] = None] : f \in InquiryRequired}
        \cup {[BaseBody EXCEPT !.email = Some("not-an-address")]}

Bodies == ValidBodies \cup InvalidBodies

\* the request handled: the route and the parameters it was given
Request(route, sector, featured, limit, body) ==
    [route |-> route, sector |-> sector, featured |-> featured,
     limit |-> limit, body |-> body]

----------------------------------------------------------------------------
(* The state machine *)

\* the handle is set once, at startup, and the database holds the first k
\* documents of each content collection and no inquiry yet
Start(envs, sizes) ==
    /\ db \in {"None", "Database"}
    /\ env \in envs
    /\ \E k \in sizes :
          store = [energyproduct |-> ProductDocs(k),
                   impactstory   |-> StoryDocs(k),
                   office        |-> OfficeDocs(k),
                   inquiry       |-> <<>>]
    /\ request = Request("start", None, None, None, None)
    /\ response = Ok(<<>>)
    /\ call = NoCall

Envs == [DATABASE_URL : EnvValues, DATABASE_NAME : EnvValues]

ConfiguredEnv == [DATABASE_URL |-> Some("value"), DATABASE_NAME |-> Some("value")]

\* every size of database, under a configured environment
Init == Start({ConfiguredEnv}, 0..MaxDocs)

\* every environment, over a database of one document per collection
InitEnv == Start(Envs, {1})

\* the handler's result becomes the state
Handle(req, r) ==
    /\ Len(r.store.inquiry) <= MaxInquiries
    /\ request' = req
    /\ response' = r.response
    /\ call' = r.call
    /\ store' = r.store
    /\ UNCHANGED <<db, env>>

GetRoot ==
    Handle(Request("/", None, None, None, None), Result(root, NoCall, store))

GetTest ==
    \E listed \in {Returned(CollectionNames(n)) : n \in 0..MaxCollections}
                    \cup {Raised(Text(n)) : n \in ErrLens} :
        Handle(Request("/test", None, None, None, None), test_database(listed))

GetSolutions ==
    \E sector \in SectorParams, featured \in FeaturedParams, exc \in Excs :
        Handle(Request("/api/solutions", sector, featured, None, None),
               list_solutions(sector, featured, exc))

GetStories ==
    \E limit \in LimitParams, exc \in Excs :
        Handle(Request("/api/stories", None, None, limit, None),
               list_stories(limit, exc))

GetOffices ==
    \E exc \in Excs :
        Handle(Request("/api/offices", None, None, None, None), list_offices(exc))

PostInquiry ==
    \E body \in Bodies, exc \in Excs :
        Handle(Request("/api/inquiry", None, None, None, Some(body)),
               post_inquiry(body, exc))

Next ==
    \/ GetRoot
    \/ GetTest
    \/ GetSolutions
    \/ GetStories
    \/ GetOffices
    \/ PostInquiry

Spec == Init /\ [][Next]_vars

SpecEnv == InitEnv /\ [][Next]_vars

----------------------------------------------------------------------------
(* Properties *)

\* the request handled last is a POST /api/inquiry whose body is a valid
\* payload
ValidInquiry ==
    /\ request.route = "/api/inquiry"
    /\ \A f \in InquiryRequired : Val(request.body)[f] # None
    /\ Val(Val(request.body).email) \in ValidEmails

\* ... with consent given
ConsentGiven == ValidInquiry /\ Val(request.body).consent = Some(TRUE)

\* ... with consent false, or left out and false by default
ConsentRefused == ValidInquiry /\ Val(request.body).consent # Some(TRUE)

\* C1: every record of the "inquiry" collection has consent = true, and a
\* POST /api/inquiry whose payload has consent = false is answered with a
\* 4xx rejection for which create_document is not called, whether the
\* store is available or not.
C1_ConsentGate ==
    /\ \A i \in 1..Len(store.inquiry) : store.inquiry[i].consent = TRUE
    /\ ConsentRefused =>
          /\ response.status \in 400..499
          /\ call.fn # "create_document"

\* a payload without consent refused by a service whose store is available
\* and already holds an inquiry
C1_Witness ==
    /\ ConsentRefused
    /\ db = "Database"
    /\ Val(request.body).consent = Some(FALSE)
    /\ response.status = 400
    /\ Len(store.inquiry) = 1

\* C2: for a valid payload with consent = true and the store available,
\* the response is {ok: true} if create_document returned and {ok: false}
\* if it raised, and in neither case an HTTP error.
C2_WriteOutcomeAcknowledged ==
    (ConsentGiven /\ db = "Database") =>
        /\ call.fn = "create_document"
        /\ response.status = 200
        /\ response.body.ok = (~ call.outcome.raised)

\* a write that raised, acknowledged with ok = false
C2_Witness ==
    /\ ConsentGiven
    /\ db = "Database"
    /\ call.fn = "create_document"
    /\ call.outcome.raised
    /\ response.status = 200
    /\ response.body.ok = FALSE

\* C3: GET /api/solutions, /api/stories and /api/offices never fail
\* outward: whatever the store does, also when get_documents raises, the
\* response is data (status 200) and not an error.
C3_ListsNeverFail ==
    request.route \in {"/api/solutions", "/api/stories", "/api/offices"} =>
        response.status = 200

\* C4: with the store unavailable, GET /api/solutions returns the same 3
\* fixed records in the same order whatever sector and featured are.
C4_DefaultsIgnoreFilters ==
    (request.route = "/api/solutions" /\ db = "None") =>
        /\ response.status = 200
        /\ Len(response.body) = 3
        /\ response.body = DefaultSolutions
        /\ call.fn = "none"

\* the defaults returned to a request whose filters match none of them
C4_Witness ==
    /\ request.route = "/api/solutions"
    /\ db = "None"
    /\ request.sector = Some("wind")
    /\ request.featured = Some(FALSE)
    /\ response.body = DefaultSolutions

\* C5 as claimed: with the store available, the filter GET /api/solutions
\* passes to get_documents on "energyproduct" has an equality condition for
\* each parameter the request supplied, the empty string and false
\* included, and none for a parameter it did not supply.
C5_FilterOnSupplied ==
    (request.route = "/api/solutions" /\ db = "Database") =>
        /\ call.fn = "get_documents"
        /\ call.collection = "energyproduct"
        /\ call.filt.sector = request.sector
        /\ call.filt.featured = request.featured

\* C5 as amended: the filter has a condition on featured exactly when
\* featured was supplied (true or false), and a condition on sector exactly
\* when a non-empty sector was supplied; a sector given as the empty string
\* adds no condition, as if it were absent.
C5_FilterOnNonEmpty ==
    (request.route = "/api/solutions" /\ db = "Database") =>
        /\ call.fn = "get_documents"
        /\ call.collection = "energyproduct"
        /\ call.filt.featured = request.featured
        /\ call.filt.sector =
              IF request.sector = Some("") THEN None ELSE request.sector

\* an empty sector and featured = false: a condition on featured alone
C5_Witness ==
    /\ request.route = "/api/solutions"
    /\ db = "Database"
    /\ request.sector = Some("")
    /\ request.featured = Some(FALSE)
    /\ call.filt = [sector |-> None, featured |-> Some(FALSE)]

\* C6: with the store available and n documents in "impactstory", a GET
\* /api/stories with limit L >= 1 (6 when no limit is given) that the store
\* answers returns exactly min(L, n) records, the first min(L, n) documents
\* in the store's order.
C6_StoriesLimited ==
    LET L == IF request.limit = None THEN 6 ELSE Val(request.limit)
        n == Len(store.impactstory)
        m == IF L <= n THEN L ELSE n
    IN  (/\ request.route = "/api/stories"
         /\ db = "Database"
         /\ ~ call.outcome.raised
         /\ L >= 1) =>
            /\ response.status = 200
            /\ Len(response.body) = m
            /\ \A i \in 1..m : response.body[i] = ImpactStory(store.impactstory[i])

\* limit = 2 over 5 documents: the first 2
C6_Witness ==
    /\ request.route = "/api/stories"
    /\ db = "Database"
    /\ request.limit = Some(2)
    /\ Len(store.impactstory) = 5
    /\ response.status = 200
    /\ Len(response.body) = 2

C8_DiagnosticIndependent ==
    request.route = "/test" =>
        LET r == response.body
        IN  /\ response.status = 200
            /\ r.backend = "Running"
            /\ r.database_url =
                  IF env.DATABASE_URL \in {None, Some("")} THEN "Not Set" ELSE "Set"
            /\ r.database_name =
                  IF env.DATABASE_NAME \in {None, Some("")} THEN "Not Set" ELSE "Set"
            /\ db = "None" =>
                  /\ r.database = Line("Database not initialized", <<>>)
                  /\ r.connection_status = "Not Connected"
                  /\ r.collections = <<>>
            /\ (db = "Database" /\ ~ call.outcome.raised) =>
                  /\ r.database = Line("Connected & Working", <<>>)
                  /\ r.connection_status = "Connected"
                  /\ Len(r.collections) <= 10
                  /\ Len(r.collections) = Min(10, Len(call.outcome.value))
                  /\ \A i \in 1..Len(r.collections) :
                        r.collections[i] = call.outcome.value[i]
            /\ (db = "Database" /\ call.outcome.raised) =>
                  /\ r.database.text = "Connected but Error: "
                  /\ Len(r.database.detail) = Min(80, Len(call.outcome.msg))
                  /\ \A i \in 1..Len(r.database.detail) :
                        r.database.detail[i] = call.outcome.msg[i]
                  /\ r.connection_status = "Connected"
                  /\ r.collections = <<>>

\* a connected handle whose listing raises a message of more than 80
\* characters, with DATABASE_URL unset and DATABASE_NAME set
C8_Witness ==
    /\ request.route = "/test"
    /\ db = "Database"
    /\ env.DATABASE_URL = None
    /\ env.DATABASE_NAME = Some("value")
    /\ call.outcome.raised
    /\ Len(call.outcome.msg) > 80
    /\ Len(response.body.database.detail) = 80
    /\ response.body.database_url = "Not Set"
    /\ response.body.database_name = "Set"

\* C9: no request changes the "energyproduct", "impactstory" or "office"
\* collection or the store handle; a GET leaves "inquiry" unchanged; a POST
\* /api/inquiry adds at most one document to "inquiry" and removes or
\* alters none.
C9_Frame ==
    [][/\ db' = db
       /\ store'.energyproduct = store.energyproduct
       /\ store'.impactstory = store.impactstory
       /\ store'.office = store.office
       /\ request'.route # "/api/inquiry" => store'.inquiry = store.inquiry
       /\ \/ store'.inquiry = store.inquiry
          \/ /\ Len(store'.inquiry) = Len(store.inquiry) + 1
             /\ SubSeq(store'.inquiry, 1, Len(store.inquiry)) = store.inquiry]_vars

\* two inquiries stored one after the other, then a GET that the store
\* answered
C9_Witness ==
    /\ Len(store.inquiry) = 2
    /\ store.inquiry[1]._id = 1
    /\ store.inquiry[2]._id = 2
    /\ request.route = "/api/offices"
    /\ call.fn = "get_documents"
    /\ response.status = 200

\* C10: with the store unavailable, a valid payload with consent = true is
\* answered {ok: true} with the thank-you message although no write is
\* attempted and nothing is stored.
C10_AcknowledgedUnstored ==
    (ConsentGiven /\ db = "None") =>
        /\ call.fn = "none"
        /\ response = Ok(InquiryResponse(TRUE, ThankYou, <<>>))
        /\ store.inquiry = <<>>

\* ok = true for an inquiry that is in no collection
C10_Witness ==
    /\ ConsentGiven
    /\ db = "None"
    /\ response.status = 200
    /\ response.body.ok = TRUE
    /\ store.inquiry = <<>>

=============================================================================
